---- MODULE Spec2Model ----
(***************************************************************************)
(* A model of the server actions of src/lib/actions/user.actions.ts        *)
(* (createUser, getUserById, updateUser, deleteUser, updateCredits), of    *)
(* handleError, debounce and deepMergeObjects of the utility module        *)
(* (src/unnamed/part_001), and of the document store they run against.     *)
(***************************************************************************)
EXTENDS Integers, Sequences, FiniteSets, TLC

(***************************************************************************)
(* Bounds of the model.                                                    *)
(***************************************************************************)
MaxCalls == 2          \* server actions in flight at the same time
MaxOps == 2            \* server actions started in one behaviour
MaxUsers == 2          \* primary keys the store hands out
MaxFaults == 1         \* connection / store / revalidation failures injected

Calls == 1..MaxCalls
Ids == 1..MaxUsers

VARIABLES
    users,        \* the User collection: primary key -> document, or Null
    nextId,       \* the next primary key the store assigns
    pc,           \* per call: "idle", "connect", "store", "byId", "done"
    op,           \* per call: the server action it runs
    arg,          \* per call: its arguments
    found,        \* per call: deleteUser's local `deleteUser` (the removed document)
    err,          \* per call: the value caught by the catch block, or NoErr
    out,          \* per call: how the action ended (returned value / raised error)
    started,      \* number of server actions started so far
    faults,       \* number of failures injected so far
    callId,       \* per call: its sequence number (history)
    lastWriter,   \* sequence number of the call that last changed the store (history)
    prev,         \* per call: lastWriter as seen by its store lookup (history)
    snap,         \* per call: the store when it started, while it runs alone (history)
    solo,         \* per call: no other call was in flight since it started (history)
    delay,        \* debounce: the delay the debounced function was created with
    timeoutId,    \* debounce: the closure's timeoutId (0: not set yet)
    timers,       \* the runtime's list of active timers: [id, due, args]
    nextTimerId,  \* the id the runtime gives the next timer
    now,          \* the clock
    log,          \* calls of the debounced function and invocations of func, in order (history)
    obj1,         \* deepMergeObjects: first argument
    obj2,         \* deepMergeObjects: second argument
    merged,       \* deepMergeObjects: its result
    mpc           \* deepMergeObjects: "call" before, "done" after

ledgerVars == <<users, nextId, pc, op, arg, found, err, out, started, faults,
                callId, lastWriter, prev, snap, solo>>

debounceVars == <<delay, timeoutId, timers, nextTimerId, now, log>>

mergeVars == <<obj1, obj2, merged, mpc>>

vars == <<ledgerVars, debounceVars, mergeVars>>

(***************************************************************************)
(* Values.                                                                 *)
(***************************************************************************)
Null == [kind |-> "null"]
Undefined == [kind |-> "undefined"]
NoErr == [type |-> "none", message |-> ""]
NoArg == [none |-> TRUE]
NoOut == [kind |-> "pending"]

ClerkIds == {"c1", "c2"}
Usernames == {"ann", "bob"}
Balances == {10}
Deltas == {-3}
CreditDeltas == {-100, -3, 5}
CreditBalances == {0, 10}

\* CreateUserParams, reduced to the key, one profile field and the balance
CreateUserParams == [clerkId : ClerkIds, username : Usernames, creditBalance : Balances]

\* UpdateUserParams (and `any`): partial payloads for updateUser
UpdateUserParams ==
    { [username |-> "zed"],
      [creditBalance |-> 50],
      [clerkId |-> "c2", username |-> "zed"] }

\* values a failing connection, store call or revalidatePath can throw
Thrown ==
    { [type |-> "Error", message |-> "store unavailable"],
      [type |-> "string", message |-> "timeout"],
      [type |-> "other", message |-> ""] }

(***************************************************************************)
(* handleError: an Error and a string are re-thrown as a new Error; any    *)
(* other value falls through and handleError returns, so the action that   *)
(* called it in its catch block returns undefined.                         *)
(***************************************************************************)
Raised(m) == [kind |-> "raised", message |-> m]
Returned(v) == [kind |-> "returned", value |-> v]

handleError(error) ==
    IF error.type = "Error"
    THEN Raised("Error: " \o error.message)
    ELSE IF error.type = "string"
         THEN Raised("Unknown error: \"" \o error.message \o "\"")
         ELSE Returned(Undefined)

\* the parts of the state a specification does not use
OtherVarsUnchanged == UNCHANGED <<debounceVars, mergeVars>>

DebounceUnused ==
    /\ delay = 0 /\ timeoutId = 0 /\ timers = {} /\ nextTimerId = 0 /\ now = 0 /\ log = <<>>

MergeUnused ==
    /\ obj1 = Undefined /\ obj2 = Undefined /\ merged = Undefined /\ mpc = "unused"

(***************************************************************************)
(* The document store (Mongoose model User over MongoDB).                   *)
(***************************************************************************)
Live(id) == users[id] # Null
LiveIds == {id \in Ids : Live(id)}
HasClerkId(c) == \E id \in LiveIds : users[id].clerkId = c

\* (mutant) the schema declares no unique index on clerkId
UniqueViolationNoIndex(coll, c) == FALSE

\* the schema of the User model: clerkId is unique ...
UniqueViolation(coll, c) == \E id \in Ids : coll[id] # Null /\ coll[id].clerkId = c

\* ... and immutable after creation: an update never writes it
SchemaCastUpdate(update) ==
    [f \in (DOMAIN update) \ {"clerkId"} |-> update[f]]

\* (mutant) the balance of a new document is the schema default, not the input's
NewDocumentDefaultBalance(id, user) ==
    [_id |-> id, clerkId |-> user.clerkId, username |-> user.username,
     creditBalance |-> 0]

\* User.create(user): the document the store persists for a valid input
NewDocument(id, user) ==
    [_id |-> id, clerkId |-> user.clerkId, username |-> user.username,
     creditBalance |-> user.creditBalance]

\* the query {clerkId: c} / {_id: id}: the first matching document, or Null
Min(S) == CHOOSE x \in S : \A y \in S : x <= y

\* (mutant) the filter is dropped: the first document of the collection matches
FindOneNoFilter(coll, c) ==
    LET hits == {id \in Ids : coll[id] # Null}
    IN  IF hits = {} THEN Null ELSE coll[Min(hits)]

FindOne(coll, c) ==
    LET hits == {id \in Ids : coll[id] # Null /\ coll[id].clerkId = c}
    IN  IF hits = {} THEN Null ELSE coll[Min(hits)]

FindById(coll, id) == IF id \in Ids THEN coll[id] ELSE Null

\* (mutant) the document is replaced by the payload: a field the payload does
\* not name falls back to its default
ApplyUpdateReplace(doc, update) ==
    [f \in DOMAIN doc |->
        IF f \in DOMAIN update THEN update[f]
        ELSE IF f = "creditBalance" THEN 0 ELSE doc[f]]

\* findOneAndUpdate(filter, user, {new: true}): the named fields are replaced
ApplyUpdate(doc, update) ==
    [f \in DOMAIN doc |-> IF f \in DOMAIN update THEN update[f] ELSE doc[f]]

\* (mutant) the balance is floored at zero
IncCreditBalanceFloor(doc, creditFee) ==
    [doc EXCEPT !.creditBalance = IF @ + creditFee < 0 THEN 0 ELSE @ + creditFee]

\* findOneAndUpdate(filter, {$inc: {creditBalance: creditFee}}, {new: true})
IncCreditBalance(doc, creditFee) ==
    [doc EXCEPT !.creditBalance = @ + creditFee]

\* JSON.parse(JSON.stringify(doc)): the ObjectId becomes its string form,
\* strings and numbers are kept
Serialize(doc) ==
    [_id |-> ToString(doc._id), clerkId |-> doc.clerkId, username |-> doc.username,
     creditBalance |-> doc.creditBalance]

\* the primary key a caller passes to updateCredits, parsed back by the query
ParseId(s) == IF \E id \in Ids : ToString(id) = s
              THEN CHOOSE id \in Ids : ToString(id) = s
              ELSE 0

UserIdArgs == {ToString(id) : id \in Ids}

(***************************************************************************)
(* The server actions.  Every `await` is a step of its own; what runs      *)
(* between two awaits is part of one step.                                 *)
(***************************************************************************)
Ops == {"createUser", "getUserById", "updateUser", "deleteUser", "updateCredits"}

ArgsOf(o) ==
    CASE o = "createUser"    -> [user : CreateUserParams]
      [] o = "getUserById"   -> [userId : ClerkIds]
      [] o = "updateUser"    -> [clerkId : ClerkIds, user : UpdateUserParams]
      [] o = "deleteUser"    -> [clerkId : ClerkIds]
      [] o = "updateCredits" -> [userId : UserIdArgs, creditFee : Deltas]

CreatesInFlight == Cardinality({q \in Calls : op[q] = "createUser" /\ pc[q] \in {"connect", "store"}})

\* the catch block: handleError(err) either throws or returns
Catch(p, e) ==
    /\ err' = [err EXCEPT ![p] = e]
    /\ out' = [out EXCEPT ![p] = handleError(e)]
    /\ pc' = [pc EXCEPT ![p] = "done"]

\* `return JSON.parse(JSON.stringify(doc))`
Return(p, v) ==
    /\ out' = [out EXCEPT ![p] = Returned(v)]
    /\ pc' = [pc EXCEPT ![p] = "done"]
    /\ err' = err

\* a caller invokes a server action (in a free slot: one never used, or one
\* whose call has ended)
Idle(q) == pc[q] \in {"idle", "done"}

Start(p) ==
    /\ OtherVarsUnchanged
    /\ Idle(p)
    /\ \A q \in Calls : q < p => pc[q] # "idle"
    /\ started < MaxOps
    /\ \E o \in Ops : \E a \in ArgsOf(o) :
          /\ o = "createUser" => nextId + CreatesInFlight <= MaxUsers
          /\ op' = [op EXCEPT ![p] = o]
          /\ arg' = [arg EXCEPT ![p] = a]
    /\ pc' = [pc EXCEPT ![p] = "connect"]
    /\ started' = started + 1
    /\ callId' = [callId EXCEPT ![p] = started + 1]
    /\ found' = [found EXCEPT ![p] = Null]
    /\ err' = [err EXCEPT ![p] = NoErr]
    /\ out' = [out EXCEPT ![p] = NoOut]
    /\ prev' = [prev EXCEPT ![p] = 0]
    /\ LET alone == \A q \in Calls \ {p} : Idle(q)
       IN  /\ solo' = [q \in Calls |-> q = p /\ alone]
           /\ snap' = [q \in Calls |-> IF q = p /\ alone THEN users ELSE Null]
    /\ UNCHANGED <<users, nextId, faults, lastWriter>>

\* await connectToDatabase(): the connection is there
connectToDatabase(p) ==
    /\ OtherVarsUnchanged
    /\ pc[p] = "connect"
    /\ pc' = [pc EXCEPT ![p] = "store"]
    /\ UNCHANGED <<users, nextId, op, arg, found, err, out, started, faults,
                   callId, lastWriter, prev, snap, solo>>

\* await connectToDatabase() rejects
connectFails(p) ==
    /\ OtherVarsUnchanged
    /\ pc[p] = "connect"
    /\ faults < MaxFaults
    /\ faults' = faults + 1
    /\ \E e \in Thrown : Catch(p, e)
    /\ UNCHANGED <<users, nextId, op, arg, found, started, callId, lastWriter, prev, snap, solo>>

\* the one store call of createUser, getUserById, updateUser, updateCredits, or
\* deleteUser's findOneAndDelete, rejects (nothing was written)
storeFails(p) ==
    /\ OtherVarsUnchanged
    /\ pc[p] = "store"
    /\ faults < MaxFaults
    /\ faults' = faults + 1
    /\ \E e \in Thrown : Catch(p, e)
    /\ prev' = [prev EXCEPT ![p] = lastWriter]
    /\ UNCHANGED <<users, nextId, op, arg, found, started, callId, lastWriter, snap, solo>>

\* const newUser = await User.create(user); return JSON.parse(JSON.stringify(newUser))
createUser(p) ==
    /\ OtherVarsUnchanged
    /\ pc[p] = "store" /\ op[p] = "createUser"
    /\ prev' = [prev EXCEPT ![p] = lastWriter]
    /\ IF UniqueViolation(users, arg[p].user.clerkId)
       THEN /\ Catch(p, [type |-> "Error", message |-> "E11000 duplicate key"])
            /\ UNCHANGED <<users, nextId, lastWriter>>
       ELSE /\ nextId \in Ids
            /\ users' = [users EXCEPT ![nextId] = NewDocument(nextId, arg[p].user)]
            /\ nextId' = nextId + 1
            /\ lastWriter' = callId[p]
            /\ Return(p, Serialize(NewDocument(nextId, arg[p].user)))
    /\ UNCHANGED <<op, arg, found, started, faults, callId, snap, solo>>

\* (mutant) the `if (!user) throw` line is missing
getUserByIdNoCheck(p) ==
    /\ OtherVarsUnchanged
    /\ pc[p] = "store" /\ op[p] = "getUserById"
    /\ prev' = [prev EXCEPT ![p] = lastWriter]
    /\ Return(p, FindOne(users, arg[p].userId))
    /\ UNCHANGED <<users, nextId, op, arg, found, started, faults, callId, lastWriter, snap, solo>>

\* const user = await User.findOne({clerkId: userId}); if (!user) throw ...
getUserById(p) ==
    /\ OtherVarsUnchanged
    /\ pc[p] = "store" /\ op[p] = "getUserById"
    /\ prev' = [prev EXCEPT ![p] = lastWriter]
    /\ LET user == FindOne(users, arg[p].userId)
       IN  IF user = Null
           THEN Catch(p, [type |-> "Error", message |-> "User not found"])
           ELSE Return(p, Serialize(user))
    /\ UNCHANGED <<users, nextId, op, arg, found, started, faults, callId, lastWriter, snap, solo>>

\* const updatedUser = await User.findOneAndUpdate({clerkId}, user, {new: true})
updateUser(p) ==
    /\ OtherVarsUnchanged
    /\ pc[p] = "store" /\ op[p] = "updateUser"
    /\ prev' = [prev EXCEPT ![p] = lastWriter]
    /\ LET doc == FindOne(users, arg[p].clerkId)
           updatedUser == ApplyUpdate(doc, SchemaCastUpdate(arg[p].user))
       IN  IF doc = Null
           THEN /\ Catch(p, [type |-> "Error", message |-> "User update failed"])
                /\ UNCHANGED <<users, lastWriter>>
           ELSE /\ users' = [users EXCEPT ![doc._id] = updatedUser]
                /\ lastWriter' = callId[p]
                /\ Return(p, Serialize(updatedUser))
    /\ UNCHANGED <<nextId, op, arg, found, started, faults, callId, snap, solo>>

\* const deleteUser = await User.findOneAndDelete({clerkId}); if (!deleteUser) throw ...
deleteUser(p) ==
    /\ OtherVarsUnchanged
    /\ pc[p] = "store" /\ op[p] = "deleteUser"
    /\ prev' = [prev EXCEPT ![p] = lastWriter]
    /\ LET doc == FindOne(users, arg[p].clerkId)
       IN  IF doc = Null
           THEN /\ Catch(p, [type |-> "Error", message |-> "User not found"])
                /\ UNCHANGED <<users, found, lastWriter>>
           ELSE /\ users' = [users EXCEPT ![doc._id] = Null]
                /\ found' = [found EXCEPT ![p] = doc]
                /\ lastWriter' = callId[p]
                /\ pc' = [pc EXCEPT ![p] = "byId"]
                /\ UNCHANGED <<err, out>>
    /\ UNCHANGED <<nextId, op, arg, started, faults, callId, snap, solo>>

\* const deletedUser = await User.findByIdAndDelete(deleteUser._id);
\* revalidatePath("/"); return deletedUser ? JSON.parse(...) : null
deleteUserById(p) ==
    /\ OtherVarsUnchanged
    /\ pc[p] = "byId"
    /\ LET deletedUser == FindById(users, found[p]._id)
       IN  /\ users' = [users EXCEPT ![found[p]._id] = Null]
           /\ lastWriter' = IF deletedUser # Null THEN callId[p] ELSE lastWriter
           /\ Return(p, IF deletedUser # Null THEN Serialize(deletedUser) ELSE Null)
    /\ UNCHANGED <<nextId, op, arg, found, started, faults, callId, prev, snap, solo>>

\* await User.findByIdAndDelete(deleteUser._id) rejects
deleteUserByIdFails(p) ==
    /\ OtherVarsUnchanged
    /\ pc[p] = "byId"
    /\ faults < MaxFaults
    /\ faults' = faults + 1
    /\ \E e \in Thrown : Catch(p, e)
    /\ UNCHANGED <<users, nextId, op, arg, found, started, callId, lastWriter, prev, snap, solo>>

\* findByIdAndDelete answers, then revalidatePath("/") throws
revalidatePathFails(p) ==
    /\ OtherVarsUnchanged
    /\ pc[p] = "byId"
    /\ faults < MaxFaults
    /\ faults' = faults + 1
    /\ users' = [users EXCEPT ![found[p]._id] = Null]
    /\ lastWriter' = IF FindById(users, found[p]._id) # Null THEN callId[p] ELSE lastWriter
    /\ \E e \in Thrown : Catch(p, e)
    /\ UNCHANGED <<nextId, op, arg, found, started, callId, prev, snap, solo>>

\* await User.findOneAndUpdate({_id: userId}, {$inc: {creditBalance: creditFee}}, {new: true})
updateCredits(p) ==
    /\ OtherVarsUnchanged
    /\ pc[p] = "store" /\ op[p] = "updateCredits"
    /\ prev' = [prev EXCEPT ![p] = lastWriter]
    /\ LET doc == FindById(users, ParseId(arg[p].userId))
           updateUserCredits == IncCreditBalance(doc, arg[p].creditFee)
       IN  IF doc = Null
           THEN /\ Catch(p, [type |-> "Error", message |-> "User credits update failed"])
                /\ UNCHANGED <<users, lastWriter>>
           ELSE /\ users' = [users EXCEPT ![doc._id] = updateUserCredits]
                /\ lastWriter' = callId[p]
                /\ Return(p, Serialize(updateUserCredits))
    /\ UNCHANGED <<nextId, op, arg, found, started, faults, callId, snap, solo>>

IdleCalls ==
    /\ pc = [p \in Calls |-> "idle"]
    /\ op = [p \in Calls |-> "none"]
    /\ arg = [p \in Calls |-> NoArg]
    /\ found = [p \in Calls |-> Null]
    /\ err = [p \in Calls |-> NoErr]
    /\ out = [p \in Calls |-> NoOut]
    /\ callId = [p \in Calls |-> 0]
    /\ prev = [p \in Calls |-> 0]
    /\ snap = [p \in Calls |-> Null]
    /\ solo = [p \in Calls |-> FALSE]

\* the stores the program can be in when the calls under study begin: the
\* first k users have signed up, each with a clerkId of its own
SeedClerkId(id) == IF id = 1 THEN "c1" ELSE "c2"

SeedUser(id) == [clerkId |-> SeedClerkId(id), username |-> "ann", creditBalance |-> 10]

SeedStore(k) == [id \in Ids |-> IF id <= k THEN NewDocument(id, SeedUser(id)) ELSE Null]

Init ==
    /\ \E k \in 0..Cardinality(ClerkIds) :
          /\ k <= MaxUsers
          /\ users = SeedStore(k)
          /\ nextId = k + 1
    /\ started = 0
    /\ faults = 0
    /\ lastWriter = 0
    /\ IdleCalls
    /\ DebounceUnused /\ MergeUnused

LedgerNext ==
    \E p \in Calls :
        \/ Start(p)
        \/ connectToDatabase(p)
        \/ createUser(p)
        \/ getUserById(p)
        \/ updateUser(p)
        \/ deleteUser(p)
        \/ deleteUserById(p)
        \/ updateCredits(p)

Next == LedgerNext

Spec == Init /\ [][Next]_vars

\* the same calls, with the connection, the store and revalidatePath able to fail
NextFaults ==
    \/ LedgerNext
    \/ \E p \in Calls :
          \/ connectFails(p)
          \/ storeFails(p)
          \/ deleteUserByIdFails(p)
          \/ revalidatePathFails(p)

SpecFaults == Init /\ [][NextFaults]_vars

(***************************************************************************)
(* Concurrent credit adjustments: every call slot runs one updateCredits   *)
(* call, all started against the same store.                               *)
(***************************************************************************)
InitCredits ==
    /\ \E k \in 1..Cardinality(ClerkIds) : \E b \in CreditBalances :
          /\ k <= MaxUsers
          /\ users = [id \in Ids |-> IF id <= k
                                     THEN [NewDocument(id, SeedUser(id)) EXCEPT !.creditBalance = b]
                                     ELSE Null]
          /\ nextId = k + 1
    /\ pc = [p \in Calls |-> "connect"]
    /\ op = [p \in Calls |-> "updateCredits"]
    /\ arg \in [Calls -> [userId : UserIdArgs, creditFee : CreditDeltas]]
    /\ found = [p \in Calls |-> Null]
    /\ err = [p \in Calls |-> NoErr]
    /\ out = [p \in Calls |-> NoOut]
    /\ callId = [p \in Calls |-> p]
    /\ prev = [p \in Calls |-> 0]
    /\ snap = [p \in Calls |-> users]
    /\ solo = [p \in Calls |-> FALSE]
    /\ started = MaxCalls
    /\ faults = 0
    /\ lastWriter = 0
    /\ DebounceUnused /\ MergeUnused

NextCredits ==
    \E p \in Calls :
        \/ connectToDatabase(p)
        \/ connectFails(p)
        \/ updateCredits(p)
        \/ storeFails(p)

SpecCredits == InitCredits /\ [][NextCredits]_vars

(***************************************************************************)
(* debounce(func, delay).  The runtime keeps one list of active timers for *)
(* setTimeout and setInterval; clearInterval(id) removes the timer with    *)
(* that id from it, whichever of the two created it.  A timer runs its     *)
(* callback once the clock has reached its due time.                       *)
(***************************************************************************)
MaxTime == 5            \* the clock stops here
MaxDebounceCalls == 3   \* calls of the debounced function in one behaviour

Delays == {1, 2}
CallArgs == {"a", "b"}

LedgerUnused ==
    /\ users = [id \in Ids |-> Null]
    /\ nextId = 1
    /\ started = 0
    /\ faults = 0
    /\ lastWriter = 0
    /\ IdleCalls

LedgerUnchanged == UNCHANGED ledgerVars

\* (mutant) clearInterval leaves timers created by setTimeout alone
ClearIntervalOnlyIntervals(active, id) == active

\* clearInterval(timeoutId)
ClearInterval(active, id) == {t \in active : t.id # id}

\* setTimeout(() => func.apply(null, args), delay)
SetTimeout(active, id, args) == active \cup {[id |-> id, due |-> now + delay, args |-> args]}

NumCalls == Cardinality({i \in DOMAIN log : log[i].type = "call"})

\* the debounced function is called with args
Debounced(args) ==
    /\ NumCalls < MaxDebounceCalls
    /\ LET cleared == IF timeoutId # 0 THEN ClearInterval(timers, timeoutId) ELSE timers
       IN  timers' = SetTimeout(cleared, nextTimerId, args)
    /\ timeoutId' = nextTimerId
    /\ nextTimerId' = nextTimerId + 1
    /\ log' = Append(log, [type |-> "call", time |-> now, args |-> args])
    /\ UNCHANGED <<delay, now>>
    /\ UNCHANGED mergeVars /\ LedgerUnchanged

\* a timer that is due runs its callback: func.apply(null, args)
TimerFires ==
    /\ \E t \in timers :
          /\ t.due <= now
          /\ timers' = timers \ {t}
          /\ log' = Append(log, [type |-> "invoke", time |-> now, args |-> t.args])
    /\ UNCHANGED <<delay, timeoutId, nextTimerId, now>>
    /\ UNCHANGED mergeVars /\ LedgerUnchanged

\* time passes, once every due timer has run
Tick ==
    /\ now < MaxTime
    /\ \A t \in timers : now < t.due
    /\ now' = now + 1
    /\ UNCHANGED <<delay, timeoutId, timers, nextTimerId, log>>
    /\ UNCHANGED mergeVars /\ LedgerUnchanged

InitDebounce ==
    /\ delay \in Delays
    /\ timeoutId = 0
    /\ timers = {}
    /\ nextTimerId = 1
    /\ now = 0
    /\ log = <<>>
    /\ LedgerUnused /\ MergeUnused

NextDebounce ==
    \/ \E args \in CallArgs : Debounced(args)
    \/ TimerFires
    \/ Tick

SpecDebounce == InitDebounce /\ [][NextDebounce]_vars

(***************************************************************************)
(* deepMergeObjects(obj1, obj2).  A JavaScript value is a number, null,    *)
(* undefined or an object; an object maps each key to a value, or to       *)
(* Absent when it has no such own property.                                *)
(***************************************************************************)
Num(n) == [t |-> "number", n |-> n]
NullValue == [t |-> "null"]
UndefinedValue == [t |-> "undefined"]
Absent == [t |-> "absent"]
Obj(m) == [t |-> "object", m |-> m]

Keys == {"a", "b"}
InnerKeys == {"x"}

Leaves == {Num(0), Num(7), NullValue}
InnerObjects == {Obj(m) : m \in [InnerKeys -> Leaves \cup {Absent}]}
OuterObjects == {Obj(m) : m \in [Keys -> Leaves \cup InnerObjects \cup {Absent}]}

IsObject(v) == v.t = "object"
Has(o, k) == k \in DOMAIN o.m /\ o.m[k] # Absent

\* what `obj[key]` evaluates to
Get(o, k) == IF IsObject(o) /\ Has(o, k) THEN o.m[k] ELSE UndefinedValue

\* `typeof v` and the truthiness of v
TypeOf(v) == IF v.t \in {"object", "null"} THEN "object" ELSE v.t

Truthy(v) == v \notin {NullValue, UndefinedValue, Num(0)}

\* `v && typeof v === "object"`
TruthyObject(v) == Truthy(v) /\ TypeOf(v) = "object"

\* the merge, as the code computes it: output starts as a copy of obj2, then
\* every own key of obj1 is written over it, recursing where both hold objects
RECURSIVE deepMergeObjects(_, _)
deepMergeObjects(o1, o2) ==
    IF o2 = NullValue \/ o2 = UndefinedValue
    THEN o1
    ELSE Obj([key \in DOMAIN o2.m |->
                IF IsObject(o1) /\ Has(o1, key)
                THEN IF TruthyObject(Get(o1, key)) /\ TruthyObject(Get(o2, key))
                     THEN deepMergeObjects(Get(o1, key), Get(o2, key))
                     ELSE o1.m[key]
                ELSE o2.m[key]])

\* deepMergeObjects(obj1, obj2) is called
Merge ==
    /\ mpc = "call"
    /\ merged' = deepMergeObjects(obj1, obj2)
    /\ mpc' = "done"
    /\ UNCHANGED <<obj1, obj2>>
    /\ UNCHANGED debounceVars /\ LedgerUnchanged

InitMerge ==
    /\ obj1 \in OuterObjects
    /\ obj2 \in OuterObjects \cup {NullValue, UndefinedValue}
    /\ merged = Undefined
    /\ mpc = "call"
    /\ LedgerUnused /\ DebounceUnused

NextMerge == Merge

SpecMerge == InitMerge /\ [][NextMerge]_vars

(***************************************************************************)
(* Properties.                                                             *)
(***************************************************************************)
Done(p) == pc[p] = "done"
Succeeded(p) == Done(p) /\ out[p].kind = "returned" /\ out[p].value # Undefined
StoreStep(p, o) == op[p] = o /\ pc[p] = "store" /\ pc'[p] # "store"

RECURSIVE SumFees(_, _)
SumFees(S, id) ==
    IF S = {} THEN 0
    ELSE LET p == CHOOSE q \in S : TRUE
         IN  (IF Succeeded(p) /\ ParseId(arg[p].userId) = id THEN arg[p].creditFee ELSE 0)
             + SumFees(S \ {p}, id)

\* C1: once the concurrent updateCredits calls have all ended, in whatever
\* order their steps interleaved, every user's creditBalance is its initial
\* balance plus the sum of the deltas of the calls on that user that
\* succeeded: no adjustment is lost, and no floor is applied.
C1_NoLostCreditUpdate ==
    (\A p \in Calls : Done(p)) =>
        \A id \in LiveIds :
            users[id].creditBalance = snap[1][id].creditBalance + SumFees(Calls, id)

\* two calls on the same user both succeeded and the balance went below zero
C1_Witness ==
    \E p, q \in Calls :
        /\ p # q /\ Succeeded(p) /\ Succeeded(q)
        /\ arg[p].userId = arg[q].userId
        /\ arg[p].creditFee = -3 /\ arg[q].creditFee = -100
        /\ snap[1][ParseId(arg[p].userId)].creditBalance = 10
        /\ users[ParseId(arg[p].userId)].creditBalance = -93

BalanceChanged(id) ==
    /\ users[id] # Null /\ users'[id] # Null
    /\ users'[id].creditBalance # users[id].creditBalance

CreditsStepOn(p, id) ==
    /\ StoreStep(p, "updateCredits")
    /\ ParseId(arg[p].userId) = id
    /\ users'[id].creditBalance = users[id].creditBalance + arg[p].creditFee

\* C2 (as stated): the creditBalance of a record that stays live changes only
\* in an updateCredits step.
C2_OnlyUpdateCredits ==
    [][\A id \in Ids : BalanceChanged(id) => \E p \in Calls : CreditsStepOn(p, id)]_vars

\* C2 (amended): the creditBalance of a record that stays live changes only in
\* an updateCredits step on it, or in an updateUser step on its clerkId whose
\* payload names creditBalance (the balance is then the payload's).
C2_OnlyUpdateCreditsOrNamed ==
    [][\A id \in Ids : BalanceChanged(id) =>
          \E p \in Calls :
             \/ CreditsStepOn(p, id)
             \/ /\ StoreStep(p, "updateUser")
                /\ users[id].clerkId = arg[p].clerkId
                /\ "creditBalance" \in DOMAIN arg[p].user
                /\ users'[id].creditBalance = arg[p].user.creditBalance]_vars

\* an updateUser call whose payload names creditBalance has overwritten it
C2_Witness ==
    \E p \in Calls : \E id \in LiveIds :
        /\ op[p] = "updateUser" /\ Succeeded(p)
        /\ "creditBalance" \in DOMAIN arg[p].user
        /\ lastWriter = callId[p]
        /\ users[id].clerkId = arg[p].clerkId
        /\ users[id].creditBalance = arg[p].user.creditBalance
        /\ users[id].creditBalance # SeedUser(id).creditBalance

UniqueClerkIds ==
    \A i, j \in LiveIds : users[i].clerkId = users[j].clerkId => i = j

\* C3: at most one live record has any given clerkId, and the clerkId of a
\* record never changes while the record lives.
C3_ClerkIdUniqueAndStable ==
    /\ UniqueClerkIds
    /\ [][/\ UniqueClerkIds'
          /\ \A id \in Ids : users[id] # Null /\ users'[id] # Null
                               => users'[id].clerkId = users[id].clerkId]_vars

\* two overlapping createUser calls with the same clerkId have ended: one
\* returned its record, the other raised the duplicate-key error
C3_Witness ==
    \E p, q \in Calls :
        /\ op[p] = "createUser" /\ op[q] = "createUser"
        /\ arg[p].user.clerkId = arg[q].user.clerkId
        /\ ~solo[p] /\ ~solo[q]
        /\ Succeeded(p)
        /\ Done(q) /\ out[q] = Raised("Error: E11000 duplicate key")

NotFoundMessages == {"Error: User not found", "Error: User update failed"}

C5_GetAfterCreate ==
    \A p, q \in Calls :
        ( /\ op[p] = "createUser" /\ Succeeded(p)
          /\ op[q] = "getUserById" /\ Done(q)
          /\ arg[q].userId = arg[p].user.clerkId
          /\ prev[q] = callId[p] )
        => /\ out[q] = out[p]
           /\ out[q].value._id \in UserIdArgs
           /\ \A f \in DOMAIN arg[p].user : out[q].value[f] = arg[p].user[f]
           /\ DOMAIN out[q].value = DOMAIN arg[p].user \cup {"_id"}

\* createUser returned a record and the getUserById after it returned one too
C5_Witness ==
    \E p, q \in Calls :
        /\ op[p] = "createUser" /\ Succeeded(p)
        /\ op[q] = "getUserById" /\ Succeeded(q)
        /\ arg[q].userId = arg[p].user.clerkId
        /\ prev[q] = callId[p]
        /\ callId[q] > callId[p]
        /\ out[q].value.username = "bob"

\* C6: an updateUser step that finds a record with the clerkId changes that
\* one record only, and in it only fields the payload names (each named field
\* other than the key takes the payload's value), and returns the record as
\* it is after the update; one that finds none raises an error and changes
\* nothing.
C6_UpdateFrame ==
    [][\A p \in Calls : StoreStep(p, "updateUser") =>
          IF HasClerkId(arg[p].clerkId)
          THEN \E id \in LiveIds :
                  /\ users[id].clerkId = arg[p].clerkId
                  /\ \A other \in Ids \ {id} : users'[other] = users[other]
                  /\ users'[id] # Null
                  /\ DOMAIN users'[id] = DOMAIN users[id]
                  /\ \A f \in DOMAIN users[id] :
                        \/ users'[id][f] = users[id][f]
                        \/ f \in DOMAIN arg[p].user
                  /\ \A f \in DOMAIN arg[p].user \ {"clerkId"} : users'[id][f] = arg[p].user[f]
                  /\ out'[p] = Returned(Serialize(users'[id]))
          ELSE /\ users' = users
               /\ out'[p].kind = "raised"]_vars

\* an updateUser naming only username has ended: the username is the
\* payload's, the balance is what it was
C6_Witness ==
    \E p \in Calls : \E id \in LiveIds :
        /\ op[p] = "updateUser" /\ Succeeded(p)
        /\ arg[p].user = [username |-> "zed"]
        /\ users[id].clerkId = arg[p].clerkId
        /\ out[p].value = Serialize(users[id])
        /\ users[id].username = "zed"
        /\ users[id].creditBalance = SeedUser(id).creditBalance

\* C7: a call in which the connection step or a store call threw (whatever
\* the thrown value) has ended by raising an error to its caller.
C7_EveryFailureRaises ==
    \A p \in Calls : (Done(p) /\ err[p] # NoErr) => out[p].kind = "raised"

\* C8: a call that raised an error, and ran with no other call in flight,
\* has left the stored records exactly as they were when it started.
C8_RaisedMeansUnchanged ==
    \A p \in Calls : (Done(p) /\ out[p].kind = "raised" /\ solo[p]) => users = snap[p]

IsCall(i) == log[i].type = "call"
IsInvoke(i) == log[i].type = "invoke"

\* the last call before position i of the log (0: none)
LastCallBefore(i) ==
    LET cs == {j \in 1..(i - 1) : IsCall(j)}
    IN  IF cs = {} THEN 0 ELSE CHOOSE j \in cs : \A k \in cs : k <= j

\* C10: func is invoked only for the last call of a burst: never while a call
\* is less than delay old, exactly delay after the call it is invoked for,
\* with that call's arguments, and once per call at most; the only pending
\* timer is the one of the last call (every earlier one is cancelled), so
\* the last call of a burst is followed by exactly one invocation once the
\* clock has passed its due time.
C10_DebounceFiresOncePerBurst ==
    /\ \A i \in DOMAIN log : IsInvoke(i) =>
          /\ LastCallBefore(i) = i - 1
          /\ log[i].args = log[i - 1].args
          /\ log[i].time = log[i - 1].time + delay
    /\ \A t \in timers :
          /\ t.id = timeoutId
          /\ log # <<>> /\ IsCall(Len(log))
          /\ t.args = log[Len(log)].args
          /\ t.due = log[Len(log)].time + delay
    /\ (log # <<>> /\ IsCall(Len(log))) =>
          /\ Cardinality(timers) = 1
          /\ now <= log[Len(log)].time + delay

\* a burst of two calls less than delay apart has ended: func ran once, delay
\* after the second call, with the second call's arguments
C10_Witness ==
    /\ Len(log) = 3
    /\ IsCall(1) /\ IsCall(2) /\ IsInvoke(3)
    /\ log[1].args = "a" /\ log[2].args = "b" /\ log[3].args = "b"
    /\ log[2].time > log[1].time /\ log[2].time < log[1].time + delay
    /\ log[3].time = log[2].time + delay
    /\ timers = {}
    /\ now > log[3].time

\* the merge the documentation describes: obj2's value wins wherever both
\* objects hold a key and the two values are not both objects
RECURSIVE MergedPreferringSecond(_, _, _)
MergedPreferringSecond(o1, o2, r) ==
    /\ IsObject(r)
    /\ \A k \in DOMAIN o2.m :
          IF Has(o1, k) /\ Has(o2, k)
          THEN IF IsObject(o1.m[k]) /\ IsObject(o2.m[k])
               THEN MergedPreferringSecond(o1.m[k], o2.m[k], r.m[k])
               ELSE r.m[k] = o2.m[k]
          ELSE IF Has(o1, k) THEN r.m[k] = o1.m[k]
          ELSE r.m[k] = o2.m[k]

\* C9: the result of deepMergeObjects(obj1, obj2) holds obj2's value for every
\* key the two objects share whose values are not both objects, keeps a key
\* of only one object as it is, merges two objects under the same key by the
\* same rule, and is obj1 when obj2 is null or undefined.
C9_SecondObjectWins ==
    mpc = "done" =>
        IF obj2 = NullValue \/ obj2 = UndefinedValue
        THEN merged = obj1
        ELSE MergedPreferringSecond(obj1, obj2, merged)

====
